---- MODULE Spec2Model ----
(***************************************************************************)
(* A model of poetry-relax: the `poetry relax` command (RelaxCommand) of   *)
(* src/src/poetry_relax/command.py and the helpers of                      *)
(* src/src/poetry_relax/_core.py.                                          *)
(*                                                                         *)
(* Strings whose characters the code inspects (constraints, dependency     *)
(* names) are sequences of one-character strings; group names and          *)
(* messages, which the code only compares and prints, are TLA+ strings.    *)
(***************************************************************************)
EXTENDS Integers, Sequences, FiniteSets, TLC

(***************************************************************************)
(* Bounds of the model.                                                    *)
(***************************************************************************)
\* the largest number of dependencies declared in one manifest
MaxDeps == 2

(***************************************************************************)
(* Strings.                                                                *)
(***************************************************************************)
None == "None"

python == <<"p", "y", "t", "h", "o", "n">>

MAIN_GROUP == "main"

Max(S) == CHOOSE m \in S : \A n \in S : n <= m

RECURSIVE lstrip(_)
\* str.lstrip(): leading whitespace removed
lstrip(s) ==
    IF s # <<>> /\ Head(s) = " " THEN lstrip(Tail(s)) ELSE s

RECURSIVE rstrip(_, _)
\* str.rstrip(c): every trailing occurrence of the character c removed
rstrip(s, c) ==
    IF s # <<>> /\ s[Len(s)] = c THEN rstrip(SubSeq(s, 1, Len(s) - 1), c) ELSE s

\* str.strip(): leading and trailing whitespace removed
strip(s) == rstrip(lstrip(s), " ")

RECURSIVE join(_)
\* "".join(parts)
join(parts) ==
    IF parts = <<>> THEN <<>> ELSE Head(parts) \o join(Tail(parts))

RECURSIVE SpacesAt(_, _)
\* the number of spaces of s from position p on
SpacesAt(s, p) ==
    IF p <= Len(s) /\ s[p] = " " THEN 1 + SpacesAt(s, p + 1) ELSE 0

\* OR_CONSTRAINT_SEPARATORS: optional whitespace, one or two bars, optional
\* whitespace. A match at p is the spaces from p on, the bars and the spaces
\* after them.
OrMatches(s, p) ==
    LET q == p + SpacesAt(s, p) IN q <= Len(s) /\ s[q] = "|"

OrMatchLen(s, p) ==
    LET q == p + SpacesAt(s, p)
        bars == IF q + 1 <= Len(s) /\ s[q + 1] = "|" THEN 2 ELSE 1
    IN  (q - p) + bars + SpacesAt(s, q + bars)

\* AND_CONSTRAINT_SEPARATORS: not at the start of the string and not after one
\* of "~=>< ,"; spaces; a comma or a space that neither follows nor precedes
\* a hyphen; spaces; not before a comma or the end of the string.
\* A match at p has a spaces before and b spaces after the separator.
AndMatchOk(s, p, a, b) ==
    LET q == p + a IN
    /\ p > 1
    /\ s[p - 1] \notin {"~", "=", ">", "<", " ", ","}
    /\ a <= SpacesAt(s, p)
    /\ s[q - 1] # "-"
    /\ q <= Len(s)
    /\ s[q] \in {",", " "}
    /\ (q + 1 <= Len(s) => s[q + 1] # "-")
    /\ b <= SpacesAt(s, q + 1)
    /\ q + b + 1 <= Len(s)
    /\ s[q + b + 1] # ","

\* the matches at p: the first run of spaces ends within the spaces at p
AndMatchSet(s, p) ==
    {m \in (0..SpacesAt(s, p)) \X (0..Len(s)) : AndMatchOk(s, p, m[1], m[2])}

\* both runs of spaces are greedy: the longest first run that lets the rest
\* match, then the longest second run; 0 when there is no match at p
AndMatchLen(s, p) ==
    LET M == AndMatchSet(s, p)
        a == Max({m[1] : m \in M})
        b == Max({m[2] : m \in {n \in M : n[1] = a}})
    IN  IF M = {} THEN 0 ELSE a + 1 + b

RECURSIVE OrSplitFrom(_, _, _)
\* re.split(OR_CONSTRAINT_SEPARATORS, s): pieces and separators alternate
OrSplitFrom(s, start, pos) ==
    IF pos > Len(s) THEN <<SubSeq(s, start, Len(s))>>
    ELSE IF OrMatches(s, pos)
         THEN LET n == OrMatchLen(s, pos) IN
              <<SubSeq(s, start, pos - 1), SubSeq(s, pos, pos + n - 1)>>
                  \o OrSplitFrom(s, pos + n, pos + n)
         ELSE OrSplitFrom(s, start, pos + 1)

RECURSIVE AndSplitFromTrimmed(_, _, _)
\* AndSplitFrom that captures the separator without the spaces around it
AndSplitFromTrimmed(s, start, pos) ==
    IF pos > Len(s) THEN <<SubSeq(s, start, Len(s))>>
    ELSE LET n == AndMatchLen(s, pos) IN
         IF n > 0
         THEN <<SubSeq(s, start, pos - 1), strip(SubSeq(s, pos, pos + n - 1))>>
                  \o AndSplitFromTrimmed(s, pos + n, pos + n)
         ELSE AndSplitFromTrimmed(s, start, pos + 1)

RECURSIVE AndSplitFrom(_, _, _)
\* re.split(AND_CONSTRAINT_SEPARATORS, s)
AndSplitFrom(s, start, pos) ==
    IF pos > Len(s) THEN <<SubSeq(s, start, Len(s))>>
    ELSE LET n == AndMatchLen(s, pos) IN
         IF n > 0
         THEN <<SubSeq(s, start, pos - 1), SubSeq(s, pos, pos + n - 1)>>
                  \o AndSplitFrom(s, pos + n, pos + n)
         ELSE AndSplitFrom(s, start, pos + 1)

(***************************************************************************)
(* _core.py: the rewrite of a constraint string.                           *)
(***************************************************************************)
\* drop_upper_bound_from_caret_constraint without the startswith test
drop_upper_bound_from_any_constraint(constraint) ==
    IF constraint # <<>> THEN <<">", "=">> \o Tail(constraint) ELSE constraint

RECURSIVE drop_upper_bound_from_first_caret(_)
\* drop_upper_bound_from_caret_constraint on the first caret, wherever it is
drop_upper_bound_from_first_caret(constraint) ==
    IF constraint = <<>> THEN constraint
    ELSE IF Head(constraint) = "^" THEN <<">", "=">> \o Tail(constraint)
    ELSE <<Head(constraint)>> \o drop_upper_bound_from_first_caret(Tail(constraint))

drop_upper_bound_from_caret_constraint(constraint) ==
    IF constraint # <<>> /\ Head(constraint) = "^"
    THEN <<">", "=">> \o Tail(constraint)
    ELSE constraint

\* the character a marking callback puts before the string it is given
Mark == "#"

\* callback(clause): the callbacks are passed by name
Call(callback, clause) ==
    CASE callback = "drop_upper_bound_from_caret_constraint" ->
            drop_upper_bound_from_caret_constraint(clause)
      [] callback = "mark" -> <<Mark>> \o clause
      [] OTHER -> clause

\* MutateOrGroup that joins the clauses without their separators
MutateOrGroupJoiningClauses(or_constraint, callback) ==
    LET and_constraints == AndSplitFrom(strip(rstrip(or_constraint, ",")), 1, 1)
    IN  join([j \in 1..((Len(and_constraints) + 1) \div 2) |->
                 Call(callback, and_constraints[2 * j - 1])])

\* MutateOrGroup that calls the callback on the separators as well
MutateOrGroupCallingSeparators(or_constraint, callback) ==
    LET and_constraints == AndSplitFrom(strip(rstrip(or_constraint, ",")), 1, 1)
    IN  join([j \in 1..Len(and_constraints) |->
                 Call(callback, and_constraints[j])])

\* the body of the loop over the OR-groups: the callback on every other
\* piece of the AND-split of the group
MutateOrGroup(or_constraint, callback) ==
    LET and_constraints == AndSplitFrom(strip(rstrip(or_constraint, ",")), 1, 1)
    IN  join([j \in 1..Len(and_constraints) |->
                 IF j % 2 = 1 THEN Call(callback, and_constraints[j])
                 ELSE and_constraints[j]])

mutate_constraint(constraints, callback) ==
    IF constraints = <<"*">> THEN Call(callback, constraints)
    ELSE LET or_constraints == OrSplitFrom(strip(constraints), 1, 1)
         IN  join([i \in 1..Len(or_constraints) |->
                      IF i % 2 = 1 THEN MutateOrGroup(or_constraints[i], callback)
                      ELSE or_constraints[i]])

\* the pretty constraint of drop_caret_bound_from_dependency(dependency)
RelaxedConstraint(pretty_constraint) ==
    mutate_constraint(pretty_constraint,
                      "drop_upper_bound_from_caret_constraint")

(***************************************************************************)
(* The manifest and the dependency records.                                *)
(*                                                                         *)
(* The manifest's dependency tables are a function from the names of the   *)
(* groups that declare a table to the table, a sequence of entries in the  *)
(* order of the file. An entry is [key, kind, version, extras]: kind "str" *)
(* for `name = "^1"` and "dict" for `name = {version = "^1", ...}`, whose  *)
(* other keys are extras.                                                  *)
(***************************************************************************)
\* the groups of the package, and every name an option may give, in the
\* ascending order of sorted()
PackageGroups == {"dev", MAIN_GROUP}

GroupNamesSorted == <<"dev", "ghost", "main">>

Lower(c) == CASE c = "T" -> "t" [] c = "U" -> "u" [] c = "P" -> "p" [] OTHER -> c

RECURSIVE canonicalize_name(_)
\* Dependency.name: runs of "-", "_" and "." become one "-", letters become
\* lower case
canonicalize_name(name) ==
    IF name = <<>> THEN <<>>
    ELSE IF Head(name) \in {"-", "_", "."}
         THEN IF Len(name) > 1 /\ name[2] \in {"-", "_", "."}
              THEN canonicalize_name(Tail(name))
              ELSE <<"-">> \o canonicalize_name(Tail(name))
         ELSE <<Lower(Head(name))>> \o canonicalize_name(Tail(name))

\* Factory.create_dependency(name, constraints)
create_dependency(entry) ==
    [name |-> canonicalize_name(entry.key),
     pretty_name |-> entry.key,
     pretty_constraint |-> entry.version]

drop_caret_bound_from_dependency(dependency) ==
    [dependency EXCEPT !.pretty_constraint = RelaxedConstraint(@)]

\* the value of a found dictionary key is <<value>>, of a missing one <<>>
extract_dependency_config_for_group(group, poetry_config) ==
    IF group \in DOMAIN poetry_config THEN <<poetry_config[group]>> ELSE <<>>

\* sorted(names)
sorted(names) == SelectSeq(GroupNamesSorted, LAMBDA g : g \in names)

\* the set of the elements of a list
set(list) == {list[i] : i \in DOMAIN list}

(***************************************************************************)
(* command.py, RelaxCommand.handle: the pieces of the handler.             *)
(***************************************************************************)
\* InvalidGroups without the --without option
InvalidGroupsNotWithout(option) ==
    {g \in set(option.only) \cup set(option.group) : g \notin PackageGroups}

\* _validate_group_options: the groups of the three options that the package
\* does not have
InvalidGroups(option) ==
    {g \in set(option.only) \cup set(option.without) \cup set(option.group) :
        g \notin PackageGroups}

\* get_only_group_option without the deprecated --group option
get_only_group_option_only(option) == set(option.only)

\* _get_only_group_option
get_only_group_option(option) == set(option.only \o option.group)

\* the orders in which a Python set may be iterated
SetOrders(S) ==
    {q \in [1..Cardinality(S) -> S] : \A i, j \in DOMAIN q : q[i] = q[j] => i = j}

\* the candidates of the list `groups`, before the --without filter
GroupCandidates(option) ==
    IF get_only_group_option(option) # {}
    THEN SetOrders(get_only_group_option(option))
    ELSE {sorted(PackageGroups)}

\* WithoutExcluded that excludes nothing
WithoutExcludedNothing(candidates, option) == candidates

\* the --without filter of the list `groups`
WithoutExcluded(candidates, option) ==
    SelectSeq(candidates, LAMBDA g : g \notin set(option.without))

\* target_dependencies: every entry but the one named python, parsed
TargetDependencies(dependency_config) ==
    LET kept == SelectSeq(dependency_config, LAMBDA e : e.key # python)
    IN  [i \in 1..Len(kept) |-> create_dependency(kept[i])]

\* updated_dependencies[group]: the (old constraint, new dependency) pairs
\* whose pretty constraint changed
UpdatedOf(target_dependencies) ==
    LET pairs == [i \in 1..Len(target_dependencies) |->
                    [old |-> target_dependencies[i].pretty_constraint,
                     dependency |->
                        drop_caret_bound_from_dependency(target_dependencies[i])]]
    IN  SelectSeq(pairs, LAMBDA u : u.old # u.dependency.pretty_constraint)

\* one pass of the loop over `groups` that fills updated_dependencies:
\* whether the group got an entry, the entry, and the lines written
GroupPass(group, poetry_config, verbose) ==
    LET found == extract_dependency_config_for_group(group, poetry_config)
        target == TargetDependencies(found[1])
        checking == <<"Checking dependencies for relaxable constraints...">>
    IN  IF found = <<>>
        THEN [assigned |-> FALSE, updates |-> <<>>,
              out |-> checking \o <<"No dependencies found.">>]
        ELSE IF target = <<>>
        THEN [assigned |-> TRUE, updates |-> <<>>,
              out |-> checking \o <<"No dependencies to relax.">>]
        ELSE [assigned |-> TRUE, updates |-> UpdatedOf(target),
              out |-> checking
                      \o (IF verbose THEN <<"Found dependencies.">> ELSE <<>>)
                      \o (IF verbose THEN <<"Proposing updates in group.">> ELSE <<>>)]

RECURSIVE CollectUpdates(_, _, _)
\* the whole loop: updated_dependencies and the lines written
CollectUpdates(gs, poetry_config, verbose) ==
    IF gs = <<>> THEN [updated |-> <<>>, out |-> <<>>]
    ELSE LET pass == GroupPass(Head(gs), poetry_config, verbose)
             rest == CollectUpdates(Tail(gs), poetry_config, verbose)
         IN  [updated |-> IF pass.assigned
                          THEN (Head(gs) :> pass.updates) @@ rest.updated
                          ELSE rest.updated,
              out |-> pass.out \o rest.out]

RECURSIVE SumLen(_, _)
SumLen(f, D) ==
    IF D = {} THEN 0
    ELSE LET d == CHOOSE e \in D : TRUE IN Len(f[d]) + SumLen(f, D \ {d})

\* updated_count
UpdatedCount(updated) == SumLen(updated, DOMAIN updated)

\* the condition of the validation branch
InstallerRequested(option) == option.update \/ option.check \/ option.lock

\* should_not_update without the dry-run option
should_not_update_ignoring_dry_run(option) == ~(option.update \/ option.lock)

should_not_update(option) ==
    option.dry_run \/ ~(option.update \/ option.lock)

RECURSIVE VerboseProposals(_, _)
\* the verbose loop over `groups` before the installer: the lines written and
\* whether updated_dependencies[group] raised KeyError
VerboseProposals(gs, updated) ==
    IF gs = <<>> THEN [out |-> <<>>, raised |-> FALSE]
    ELSE IF Head(gs) \notin DOMAIN updated THEN [out |-> <<>>, raised |-> TRUE]
    ELSE LET rest == VerboseProposals(Tail(gs), updated)
         IN  [out |-> [i \in 1..Len(updated[Head(gs)]) |-> "Proposing update."]
                      \o rest.out,
              raised |-> rest.raised]

\* dependencies_by_group: the new dependencies of every group with an entry
DependenciesByGroup(updated) ==
    [g \in DOMAIN updated |->
        [i \in 1..Len(updated[g]) |-> updated[g][i].dependency]]

\* the index of the entry of the table under the key, 0 when there is none
IndexOfKey(dependency_config, key) ==
    IF \E i \in DOMAIN dependency_config : dependency_config[i].key = key
    THEN CHOOSE i \in DOMAIN dependency_config :
            /\ dependency_config[i].key = key
            /\ \A j \in DOMAIN dependency_config :
                  dependency_config[j].key = key => i <= j
    ELSE 0

\* the key under which the apply loop looks the dependency up
LookupName(dependency) == dependency.name

\* Rewritten without the isinstance test: a table is replaced by the string
RewrittenAsString(entry, dependency) ==
    [entry EXCEPT !.version = dependency.pretty_constraint,
                  !.kind = "str", !.extras = None]

\* the assignment of the apply loop to one entry
Rewritten(entry, dependency) ==
    IF entry.kind = "dict"
    THEN [entry EXCEPT !.version = dependency.pretty_constraint]
    ELSE [entry EXCEPT !.version = dependency.pretty_constraint,
                       !.kind = "str", !.extras = None]

RECURSIVE ApplyUpdates(_, _)
\* the apply loop over a list of <<group, update>>: the document after it, the
\* lines written and whether a key lookup raised KeyError, which ends the loop
ApplyUpdates(work, poetry_config) ==
    IF work = <<>> THEN [config |-> poetry_config, out |-> <<>>, raised |-> FALSE]
    ELSE LET group == Head(work)[1]
             dependency == Head(work)[2].dependency
             i == IndexOfKey(poetry_config[group], LookupName(dependency))
         IN  IF i = 0
             THEN [config |-> poetry_config, out |-> <<>>, raised |-> TRUE]
             ELSE LET rest == ApplyUpdates(Tail(work),
                                 [poetry_config EXCEPT ![group][i] =
                                     Rewritten(@, dependency)])
                  IN  [rest EXCEPT !.out = <<"Updated constraint.">> \o @]

RECURSIVE ApplyWorkIntoDev(_, _, _)
\* ApplyWork that applies every update to the table of dev when there is one
ApplyWorkIntoDev(gs, updated, poetry_config) ==
    IF gs = <<>> THEN <<>>
    ELSE (IF extract_dependency_config_for_group(Head(gs), poetry_config) = <<>>
          THEN <<>>
          ELSE [i \in 1..Len(updated[Head(gs)]) |->
                    <<IF "dev" \in DOMAIN poetry_config THEN "dev" ELSE Head(gs),
                      updated[Head(gs)][i]>>])
         \o ApplyWorkIntoDev(Tail(gs), updated, poetry_config)

RECURSIVE ApplyWork(_, _, _)
\* the updates the apply loop goes through, in its order: the groups of
\* `groups` that declare a table, each with its updated_dependencies
ApplyWork(gs, updated, poetry_config) ==
    IF gs = <<>> THEN <<>>
    ELSE (IF extract_dependency_config_for_group(Head(gs), poetry_config) = <<>>
          THEN <<>>
          ELSE [i \in 1..Len(updated[Head(gs)]) |->
                    <<Head(gs), updated[Head(gs)][i]>>])
         \o ApplyWork(Tail(gs), updated, poetry_config)

\* InstallerArguments of an installer that always applies
InstallerArgumentsApplying(option, updated, verbose) ==
    [lockfile_only |-> option.lock,
     dependencies_by_group |-> DependenciesByGroup(updated),
     dry_run |-> FALSE,
     verbose |-> verbose,
     silent |-> FALSE]

\* InstallerArguments that silences whenever the output is not verbose
InstallerArgumentsSilentUnlessVerbose(option, updated, verbose) ==
    [lockfile_only |-> option.lock,
     dependencies_by_group |-> DependenciesByGroup(updated),
     dry_run |-> should_not_update(option),
     verbose |-> verbose,
     silent |-> ~verbose]

\* the keyword arguments of the call of run_installer_update
InstallerArguments(option, updated, verbose) ==
    [lockfile_only |-> option.lock,
     dependencies_by_group |-> DependenciesByGroup(updated),
     dry_run |-> should_not_update(option),
     verbose |-> verbose,
     silent |-> should_not_update(option) /\ ~verbose]

\* `except Exception`: the exceptions the clause around the installer catches
Catches(exc) == TRUE

\* InstallerStatus with another status in the except clause
InstallerStatusExcept2(result) ==
    IF result.exception # None THEN 2 ELSE result.returned[1]

\* the status after the try statement around run_installer_update
InstallerStatus(result) ==
    IF result.exception # None THEN 1 ELSE result.returned[1]

\* NothingToRelax as `if not updated_dependencies`
NothingToRelaxNoGroup(updated) == DOMAIN updated = {}

\* `if not updated_count`
NothingToRelax(updated) == UpdatedCount(updated) = 0

\* ShouldWrite without the test of the status
ShouldWriteWhateverStatus(st, opt) == ~opt.dry_run

\* the condition under which the manifest is written
ShouldWrite(st, opt) == st = <<0>> /\ ~opt.dry_run

(***************************************************************************)
(* The inputs of an invocation.                                            *)
(***************************************************************************)
\* the entries a manifest may declare, in the order in which a table declares
\* them
EntryPool ==
    <<[key |-> <<"t">>, kind |-> "str", version |-> <<"^", "1">>, extras |-> None],
      [key |-> <<"t">>, kind |-> "str", version |-> <<">", "=", "1">>,
       extras |-> None],
      [key |-> <<"t">>, kind |-> "str", version |-> <<">", "=", "1", ",">>,
       extras |-> None],
      [key |-> <<"T">>, kind |-> "str", version |-> <<"^", "2">>, extras |-> None],
      [key |-> <<"u">>, kind |-> "dict", version |-> <<"^", "1", ",", "<", "3">>,
       extras |-> "allow-prereleases"],
      [key |-> python, kind |-> "str", version |-> <<"^", "3">>, extras |-> None],
      [key |-> <<"P", "y", "t", "h", "o", "n">>, kind |-> "str",
       version |-> <<"^", "2">>, extras |-> None]>>

\* the tables of at most n entries, no key twice
Tables(n) ==
    {SelectSeq(EntryPool, LAMBDA e : e \in S) :
        S \in {T \in SUBSET set(EntryPool) :
                  /\ Cardinality(T) <= n
                  /\ \A d, e \in T : d.key = e.key => d = e}}

\* the manifests: some groups of the package declare a table
Manifests ==
    {m \in UNION {[D -> Tables(MaxDeps)] : D \in SUBSET PackageGroups} :
        SumLen(m, DOMAIN m) <= MaxDeps}

\* the --only, --group and --without options: every combination of one known
\* group or none for each, and an unknown group for each
GroupOptions ==
    [only : {<<>>, <<"dev">>}, group : {<<>>, <<"main">>},
     without : {<<>>, <<"dev">>}]
    \cup {[only |-> <<"ghost">>, group |-> <<>>, without |-> <<>>],
          [only |-> <<>>, group |-> <<"ghost">>, without |-> <<>>],
          [only |-> <<>>, group |-> <<>>, without |-> <<"ghost">>]}

Options ==
    {[only |-> g.only, group |-> g.group, without |-> g.without,
      dry_run |-> f[1], lock |-> f[2], check |-> f[3], update |-> f[4]] :
        g \in GroupOptions, f \in BOOLEAN \X BOOLEAN \X BOOLEAN \X BOOLEAN}

\* what installer.run() may return, and what run_installer_update may raise
InstallerStatuses == {0, 1, 2}

InstallerExceptions == {"SolverProblemError"}

\* the ways run_installer_update may end
InstallerResults ==
    {[exception |-> e, returned |-> <<>>] : e \in InstallerExceptions}
    \cup {[exception |-> None, returned |-> <<n>>] : n \in InstallerStatuses}

(***************************************************************************)
(* The state of one invocation.                                            *)
(***************************************************************************)
VARIABLES
    pc,                   \* the position in handle
    option,               \* self.option(...)
    is_verbose,           \* self.io.is_verbose()
    file,                 \* the manifest as persisted by self.poetry.file
    read_config,          \* history: the document self.poetry.file.read() gave
    poetry_config,        \* the in-memory document, pyproject_config
    groups,               \* the list `groups`
    updated_dependencies, \* the dict updated_dependencies
    status,               \* <<>> while there is none, <<n>> once it is n
    outcome,              \* "running", "returned" or "raised"
    exception,            \* the exception raised, None when there is none
    output,               \* the lines written to self.io
    write_calls,          \* the number of calls of self.poetry.file.write
    installer_calls,      \* the calls of run_installer_update
    constraints,          \* the argument of a call of mutate_constraint alone
    mutated,              \* the results of that call and of the calls on them
    marked,               \* the result of the call with the marking callback
    dropped,              \* the result of the clause rewriter on the string
    package,              \* poetry.package: the dependencies of every group
    installer,            \* the settings the installer was given
    io,                   \* installer._io: its write and write_line attributes
    last_line,            \* last_line of update_messages_for_dry_run
    write_log,            \* history: the calls of io.write and io.write_line
    event,                \* the ConsoleTerminateEvent given to the listener
    command_calls         \* the calls of event.command.call

vars ==
    <<pc, option, is_verbose, file, read_config, poetry_config, groups,
      updated_dependencies, status, outcome, exception, output, write_calls,
      installer_calls, constraints, mutated, marked, dropped, package,
      installer, io, last_line, write_log, event, command_calls>>

Init ==
    /\ pc = "read"
    /\ option \in Options
    /\ is_verbose \in BOOLEAN
    /\ file \in Manifests
    /\ read_config = <<>>
    /\ poetry_config = <<>>
    /\ groups = <<>>
    /\ updated_dependencies = <<>>
    /\ status = <<>>
    /\ outcome = "running"
    /\ exception = None
    /\ output = <<>>
    /\ write_calls = 0
    /\ installer_calls = <<>>
    /\ constraints = <<>>
    /\ mutated = <<>>
    /\ marked = <<>>
    /\ dropped = <<>>
    /\ package = <<>>
    /\ installer = <<>>
    /\ io = <<>>
    /\ last_line = <<>>
    /\ write_log = <<>>
    /\ event = <<>>
    /\ command_calls = <<>>

\* `return n` of handle
Return(n, lines) ==
    /\ pc' = "done"
    /\ status' = <<n>>
    /\ outcome' = "returned"
    /\ output' = output \o lines

\* an exception that leaves handle, after the lines written before it: the
\* command tester turns a PoetryConsoleError into a written line and status 1,
\* any other exception leaves the status as it is
Raise(exc, lines) ==
    /\ pc' = "done"
    /\ outcome' = "raised"
    /\ exception' = exc
    /\ status' = IF exc = "PoetryConsoleError" THEN <<1>> ELSE status
    /\ output' = output \o lines
                 \o (IF exc = "PoetryConsoleError"
                     THEN <<"Group(s) not found">> ELSE <<>>)

\* self.poetry.file.read()
Read ==
    /\ pc = "read"
    /\ UNCHANGED <<constraints, mutated, marked, dropped>>
    /\ UNCHANGED <<package, installer, io, last_line, write_log>>
    /\ UNCHANGED <<event, command_calls>>
    /\ pc' = "validate_groups"
    /\ poetry_config' = file
    /\ read_config' = file
    /\ output' = output \o (IF is_verbose THEN <<"Using poetry file">> ELSE <<>>)
    /\ UNCHANGED <<option, is_verbose, file, groups, updated_dependencies, status,
                   outcome, exception, write_calls, installer_calls>>

\* self._validate_group_options(...)
ValidateGroups ==
    /\ pc = "validate_groups"
    /\ UNCHANGED <<constraints, mutated, marked, dropped>>
    /\ UNCHANGED <<package, installer, io, last_line, write_log>>
    /\ UNCHANGED <<event, command_calls>>
    /\ IF InvalidGroups(option) # {}
       THEN Raise("PoetryConsoleError", <<>>)
       ELSE /\ pc' = "resolve_groups"
            /\ UNCHANGED <<status, outcome, exception, output>>
    /\ UNCHANGED <<option, is_verbose, file, read_config, poetry_config, groups,
                   updated_dependencies, write_calls, installer_calls>>

\* groups = [...]; if not groups: return 1
ResolveGroups ==
    /\ pc = "resolve_groups"
    /\ UNCHANGED <<constraints, mutated, marked, dropped>>
    /\ UNCHANGED <<package, installer, io, last_line, write_log>>
    /\ UNCHANGED <<event, command_calls>>
    /\ \E candidates \in GroupCandidates(option) :
          LET gs == WithoutExcluded(candidates, option)
              warning == IF option.group # <<>>
                         THEN <<"The --group option is deprecated">> ELSE <<>>
          IN  /\ groups' = gs
              /\ IF gs = <<>>
                 THEN /\ Return(1, warning \o <<"No groups to relax.">>)
                      /\ UNCHANGED exception
                 ELSE /\ pc' = "collect"
                      /\ output' = output \o warning
                      /\ UNCHANGED <<status, outcome, exception>>
    /\ UNCHANGED <<option, is_verbose, file, read_config, poetry_config,
                   updated_dependencies, write_calls, installer_calls>>

\* the loop over groups that fills updated_dependencies; updated_count
Collect ==
    /\ pc = "collect"
    /\ UNCHANGED <<constraints, mutated, marked, dropped>>
    /\ UNCHANGED <<package, installer, io, last_line, write_log>>
    /\ UNCHANGED <<event, command_calls>>
    /\ \E c \in {CollectUpdates(groups, poetry_config, is_verbose)} :
          /\ updated_dependencies' = c.updated
          /\ IF NothingToRelax(c.updated)
             THEN /\ Return(0, c.out \o <<"No dependency constraints to relax.">>)
                  /\ UNCHANGED exception
             ELSE /\ pc' = "check"
                  /\ output' = output \o c.out \o <<"Proposing updates.">>
                  /\ UNCHANGED <<status, outcome, exception>>
    /\ UNCHANGED <<option, is_verbose, file, read_config, poetry_config, groups,
                   write_calls, installer_calls>>

\* the branch on update, check and lock, up to the call of the installer
Check ==
    /\ pc = "check"
    /\ UNCHANGED <<constraints, mutated, marked, dropped>>
    /\ UNCHANGED <<package, installer, io, last_line, write_log>>
    /\ UNCHANGED <<event, command_calls>>
    /\ IF InstallerRequested(option)
       THEN LET v == IF is_verbose
                     THEN VerboseProposals(groups, updated_dependencies)
                     ELSE [out |-> <<>>, raised |-> FALSE]
                announce == IF should_not_update(option)
                            THEN "Checking new dependencies can be solved..."
                            ELSE "Running Poetry package installer..."
            IN  IF v.raised
                THEN Raise("KeyError", v.out)
                ELSE \E installer_present \in BOOLEAN :
                        IF installer_present
                        THEN /\ pc' = "installer"
                             /\ output' = output \o v.out \o <<announce, "">>
                             /\ UNCHANGED <<status, outcome, exception>>
                        ELSE /\ Return(1, v.out \o <<announce, "",
                                    "Poetry did not instantiate an installer for the plugin.",
                                    "Aborting!">>)
                             /\ UNCHANGED exception
       ELSE /\ pc' = "apply"
            /\ status' = <<0>>
            /\ output' = output
                         \o (IF ~option.check
                             THEN <<"Skipping check for valid versions.">>
                             ELSE <<>>)
            /\ UNCHANGED <<outcome, exception>>
    /\ UNCHANGED <<option, is_verbose, file, read_config, poetry_config, groups,
                   updated_dependencies, write_calls, installer_calls>>

\* status = run_installer_update(...), its except and else clauses
RunInstallerUpdate ==
    /\ pc = "installer"
    /\ UNCHANGED <<constraints, mutated, marked, dropped>>
    /\ UNCHANGED <<package, installer, io, last_line, write_log>>
    /\ UNCHANGED <<event, command_calls>>
    /\ \E result \in InstallerResults :
          /\ installer_calls' = Append(installer_calls,
                [arguments |-> InstallerArguments(option, updated_dependencies,
                                                  is_verbose),
                 result |-> result])
          /\ IF result.exception # None /\ ~Catches(result.exception)
             THEN Raise(result.exception, <<>>)
             ELSE /\ pc' = "apply"
                  /\ status' = <<InstallerStatus(result)>>
                  /\ output' = output
                        \o (IF result.exception # None THEN <<"str(exc)">>
                            ELSE IF option.check
                            THEN <<"Dependency check successful.">> ELSE <<>>)
                  /\ UNCHANGED <<outcome, exception>>
    /\ UNCHANGED <<option, is_verbose, file, read_config, poetry_config, groups,
                   updated_dependencies, write_calls>>

\* the loop that writes the updates into the dependency tables
Apply ==
    /\ pc = "apply"
    /\ UNCHANGED <<constraints, mutated, marked, dropped>>
    /\ UNCHANGED <<package, installer, io, last_line, write_log>>
    /\ UNCHANGED <<event, command_calls>>
    /\ \E a \in {ApplyUpdates(
                      ApplyWork(groups, updated_dependencies, poetry_config),
                      poetry_config)} :
           /\ poetry_config' = a.config
           /\ IF a.raised
              THEN Raise("KeyError", <<"">> \o a.out)
              ELSE /\ pc' = "finish"
                   /\ output' = output \o <<"">> \o a.out
                   /\ UNCHANGED <<status, outcome, exception>>
    /\ UNCHANGED <<option, is_verbose, file, read_config, groups,
                   updated_dependencies, write_calls, installer_calls>>

\* the write of the manifest, or the report that there is none; return status
Finish ==
    /\ pc = "finish"
    /\ UNCHANGED <<constraints, mutated, marked, dropped>>
    /\ UNCHANGED <<package, installer, io, last_line, write_log>>
    /\ UNCHANGED <<event, command_calls>>
    /\ IF ShouldWrite(status, option)
       THEN /\ file' = poetry_config
            /\ write_calls' = write_calls + 1
            /\ output' = output
                         \o <<"Updated config file with relaxed constraints.">>
       ELSE /\ output' = output
                         \o <<IF status # <<0>>
                              THEN "Aborted relax due to failure during dependency update."
                              ELSE "Skipped update of config file due to dry-run flag.">>
            /\ UNCHANGED <<file, write_calls>>
    /\ pc' = "done"
    /\ outcome' = "returned"
    /\ UNCHANGED <<option, is_verbose, read_config, poetry_config, groups,
                   updated_dependencies, status, exception, installer_calls>>

Next ==
    \/ Read
    \/ ValidateGroups
    \/ ResolveGroups
    \/ Collect
    \/ Check
    \/ RunInstallerUpdate
    \/ Apply
    \/ Finish

Spec == Init /\ [][Next]_vars

(***************************************************************************)
(* mutate_constraint on its own: the rewrite of one constraint string,     *)
(* applied to the string and then to its own result.                       *)
(***************************************************************************)
\* the largest length of the constraint string
MaxLen == 4

\* the number of successive applications of the rewrite
Passes == 2

\* the characters of the constraint strings
Characters == {"^", "1", ",", " ", "|", "=", "-", "*"}

ConstraintStrings == UNION {[1..n -> Characters] : n \in 0..MaxLen}

MutateInit ==
    /\ pc = "mutate"
    /\ constraints \in ConstraintStrings
    /\ mutated = <<>>
    /\ marked = <<>>
    /\ dropped = <<>>
    /\ package = <<>>
    /\ installer = <<>>
    /\ io = <<>>
    /\ last_line = <<>>
    /\ write_log = <<>>
    /\ event = <<>>
    /\ command_calls = <<>>
    /\ option = [only |-> <<>>, group |-> <<>>, without |-> <<>>,
                 dry_run |-> FALSE, lock |-> FALSE, check |-> FALSE,
                 update |-> FALSE]
    /\ is_verbose = FALSE
    /\ file = <<>>
    /\ read_config = <<>>
    /\ poetry_config = <<>>
    /\ groups = <<>>
    /\ updated_dependencies = <<>>
    /\ status = <<>>
    /\ outcome = "running"
    /\ exception = None
    /\ output = <<>>
    /\ write_calls = 0
    /\ installer_calls = <<>>

\* new_version = mutate_constraint(pretty_constraint,
\* drop_upper_bound_from_caret_constraint), on the string and then on the
\* result of the call before
Mutate ==
    /\ pc = "mutate"
    /\ Len(mutated) < Passes
    /\ mutated' = Append(mutated,
                      RelaxedConstraint(IF mutated = <<>> THEN constraints
                                        ELSE mutated[Len(mutated)]))
    /\ UNCHANGED <<pc, option, is_verbose, file, read_config, poetry_config,
                   groups, updated_dependencies, status, outcome, exception,
                   output, write_calls, installer_calls, constraints, marked,
                   dropped>>
    /\ UNCHANGED <<package, installer, io, last_line, write_log>>
    /\ UNCHANGED <<event, command_calls>>

MutateNext == Mutate

MutateSpec == MutateInit /\ [][MutateNext]_vars

(***************************************************************************)
(* mutate_constraint with another callback, and the clause rewriter on its *)
(* own: each applied once to a constraint string.                          *)
(***************************************************************************)
\* mutate_constraint(constraints, callback) with a callback that marks the
\* string it is given
MutateMarking ==
    /\ pc = "mutate"
    /\ marked = <<>>
    /\ marked' = <<mutate_constraint(constraints, "mark")>>
    /\ UNCHANGED <<pc, option, is_verbose, file, read_config, poetry_config,
                   groups, updated_dependencies, status, outcome, exception,
                   output, write_calls, installer_calls, constraints, mutated,
                   dropped>>
    /\ UNCHANGED <<package, installer, io, last_line, write_log>>
    /\ UNCHANGED <<event, command_calls>>

MarkNext == MutateMarking

MarkSpec == MutateInit /\ [][MarkNext]_vars

\* drop_upper_bound_from_caret_constraint(constraint) on the string itself
DropUpperBound ==
    /\ pc = "mutate"
    /\ dropped = <<>>
    /\ dropped' = <<drop_upper_bound_from_caret_constraint(constraints)>>
    /\ UNCHANGED <<pc, option, is_verbose, file, read_config, poetry_config,
                   groups, updated_dependencies, status, outcome, exception,
                   output, write_calls, installer_calls, constraints, mutated,
                   marked>>
    /\ UNCHANGED <<package, installer, io, last_line, write_log>>
    /\ UNCHANGED <<event, command_calls>>

DropNext == DropUpperBound

DropSpec == MutateInit /\ [][DropNext]_vars

(***************************************************************************)
(* _core.py, run_installer_update: one call, as handle makes it, from the  *)
(* replacement of the dependencies to the end of installer.run().          *)
(***************************************************************************)
\* the largest number of writes of one run of the installer
MaxWrites == 2

\* the entries of the manifests of the calls
InstallerEntryPool ==
    <<[key |-> <<"t">>, kind |-> "str", version |-> <<"^", "1">>, extras |-> None],
      [key |-> <<"T">>, kind |-> "str", version |-> <<"^", "2">>, extras |-> None],
      [key |-> <<"u">>, kind |-> "str", version |-> <<"^", "1">>, extras |-> None],
      [key |-> <<"w">>, kind |-> "str", version |-> <<">", "=", "1">>,
       extras |-> None],
      [key |-> <<"P", "y", "t", "h", "o", "n">>, kind |-> "str",
       version |-> <<"^", "2">>, extras |-> None]>>

InstallerTables(n) ==
    {SelectSeq(InstallerEntryPool, LAMBDA e : e \in S) :
        S \in {T \in SUBSET set(InstallerEntryPool) : Cardinality(T) <= n}}

InstallerManifests ==
    {m \in UNION {[D -> InstallerTables(MaxDeps)] : D \in SUBSET PackageGroups} :
        SumLen(m, DOMAIN m) <= MaxDeps}

\* the options of the invocations that call the installer: --check, --update
\* and --dry-run, with --only dev or no group option
InstallerOptions ==
    {o \in Options :
        /\ InstallerRequested(o)
        /\ ~o.lock
        /\ o.group = <<>>
        /\ o.without = <<>>}

\* the dependencies Poetry's factory gives the groups of the package: one for
\* every entry of the group's table but python
PackageOf(document) ==
    [g \in PackageGroups |->
        IF g \in DOMAIN document
        THEN LET kept == SelectSeq(document[g],
                             LAMBDA e : canonicalize_name(e.key) # python)
             IN  [i \in 1..Len(kept) |-> create_dependency(kept[i])]
        ELSE <<>>]

\* the keys of dependencies_by_group in the order of the dict: the order in
\* which handle assigned updated_dependencies[group]
DependencyGroupOrder(gs, updated) ==
    SelectSeq(gs, LAMBDA g : g \in DOMAIN updated)

\* remove_dependency that removes nothing
remove_dependency_nothing(dependencies, name) == dependencies

\* group.remove_dependency(name), a missing name is no error
remove_dependency(dependencies, name) ==
    SelectSeq(dependencies, LAMBDA d : d.name # name)

\* group.add_dependency(dependency)
add_dependency(dependencies, dependency) == Append(dependencies, dependency)

RECURSIVE ReplaceInGroup(_, _)
\* the inner loop: every new dependency replaces the ones of its name
ReplaceInGroup(dependencies, new_dependencies) ==
    IF new_dependencies = <<>> THEN dependencies
    ELSE ReplaceInGroup(
             add_dependency(
                 remove_dependency(dependencies, Head(new_dependencies).name),
                 Head(new_dependencies)),
             Tail(new_dependencies))

\* the loop variable `dependencies` after the loop over the groups: the list
\* of the last group
LastDependencies(order, dependencies_by_group) ==
    dependencies_by_group[order[Len(order)]]

\* the bound methods of the io object
OriginalIo ==
    [write |-> [func |-> "write", args |-> <<>>],
     write_line |-> [func |-> "write_line", args |-> <<>>]]

\* functools.partial(patch_function, method)
Partial(patch_function, method) == [func |-> patch_function, args |-> <<method>>]

\* the attributes after the finally clause when the finally clause is skipped
\* by an exception
RestoredUnlessRaised(patched, result) ==
    IF result.exception # None THEN patched ELSE OriginalIo

\* the attributes after the finally clause of patch_io_writes
Restored(patched, result) ==
    [write |-> patched.write.args[1], write_line |-> patched.write_line.args[1]]

\* the messages of the installer: lists of words, the empty message is blank
Narration == {<<"Updating", "t">>, <<>>}

\* message.replace(...) of the three words
DryRunWord(word) ==
    CASE word = "Updating" -> "Would update"
      [] word = "Installing" -> "Checking"
      [] word = "Skipped" -> "Would skip"
      [] OTHER -> word

\* update_messages_for_dry_run(write, message): whether the message is
\* dropped as a duplicate, and the message passed on
update_messages_for_dry_run(message, last, dry_run) ==
    [dropped |-> message # <<>> /\ message = last,
     message |-> IF dry_run THEN [i \in DOMAIN message |-> DryRunWord(message[i])]
                 ELSE message]

\* a call of the function: what reaches the output sink, <<>> for nothing
CallOf(function, message, last, dry_run) ==
    CASE function.func = "silence" -> <<>>
      [] function.func = "update_messages_for_dry_run" ->
            LET u == update_messages_for_dry_run(message, last, dry_run)
            IN  IF u.dropped THEN <<>>
                ELSE <<[function |-> function.args[1].func, message |-> u.message]>>
      [] OTHER -> <<[function |-> function.func, message |-> message]>>

\* the arguments of the call
Arguments == InstallerArguments(option, updated_dependencies, is_verbose)

InstallerInit ==
    /\ pc = "replace"
    /\ option \in InstallerOptions
    /\ is_verbose \in BOOLEAN
    /\ file \in InstallerManifests
    /\ read_config = file
    /\ poetry_config = file
    /\ groups \in {WithoutExcluded(c, option) : c \in GroupCandidates(option)}
    /\ updated_dependencies =
          CollectUpdates(groups, poetry_config, is_verbose).updated
    /\ ~NothingToRelax(updated_dependencies)
    /\ is_verbose => ~VerboseProposals(groups, updated_dependencies).raised
    /\ package = PackageOf(file)
    /\ installer = <<>>
    /\ io = OriginalIo
    /\ last_line = <<>>
    /\ write_log = <<>>
    /\ status = <<>>
    /\ outcome = "running"
    /\ exception = None
    /\ output = <<>>
    /\ write_calls = 0
    /\ installer_calls = <<>>
    /\ constraints = <<>>
    /\ mutated = <<>>
    /\ marked = <<>>
    /\ dropped = <<>>
    /\ event = <<>>
    /\ command_calls = <<>>

\* the loop over dependencies_by_group.items()
ReplaceDependencies ==
    /\ pc = "replace"
    /\ pc' = "configure"
    /\ package' =
          [g \in DOMAIN package |->
              IF g \in DOMAIN Arguments.dependencies_by_group
              THEN ReplaceInGroup(package[g], Arguments.dependencies_by_group[g])
              ELSE package[g]]
    /\ UNCHANGED <<option, is_verbose, file, read_config, poetry_config, groups,
                   updated_dependencies, status, outcome, exception, output,
                   write_calls, installer_calls>>
    /\ UNCHANGED <<constraints, mutated, marked, dropped>>
    /\ UNCHANGED <<installer, io, last_line, write_log, event, command_calls>>

\* the settings of the installer, from set_locker to whitelist
ConfigureInstaller ==
    /\ pc = "configure"
    /\ pc' = "patch"
    /\ installer' =
          LET order == DependencyGroupOrder(groups, updated_dependencies)
              dependencies ==
                  LastDependencies(order, Arguments.dependencies_by_group)
          IN  [only_groups |-> order,
               dry_run |-> Arguments.dry_run,
               verbose |-> Arguments.verbose,
               update |-> TRUE,
               lock |-> Arguments.lockfile_only,
               whitelist |-> [i \in DOMAIN dependencies |-> dependencies[i].name]]
    /\ UNCHANGED <<option, is_verbose, file, read_config, poetry_config, groups,
                   updated_dependencies, status, outcome, exception, output,
                   write_calls, installer_calls>>
    /\ UNCHANGED <<constraints, mutated, marked, dropped>>
    /\ UNCHANGED <<package, io, last_line, write_log, event, command_calls>>

\* the entry of `with patch_io_writes(...)`
PatchIoWrites ==
    /\ pc = "patch"
    /\ pc' = "run"
    /\ LET patch_function == IF Arguments.silent THEN "silence"
                             ELSE "update_messages_for_dry_run"
       IN  io' = [write |-> Partial(patch_function, io.write),
                  write_line |-> Partial(patch_function, io.write_line)]
    /\ UNCHANGED <<option, is_verbose, file, read_config, poetry_config, groups,
                   updated_dependencies, status, outcome, exception, output,
                   write_calls, installer_calls>>
    /\ UNCHANGED <<constraints, mutated, marked, dropped>>
    /\ UNCHANGED <<package, installer, last_line, write_log, event,
                   command_calls>>

\* installer.run() writes a message with io.write or io.write_line
InstallerWrite ==
    /\ pc = "run"
    /\ Len(write_log) < MaxWrites
    /\ \E attribute \in {"write", "write_line"}, message \in Narration :
          LET reached == CallOf(io[attribute], message, last_line,
                                Arguments.dry_run)
          IN  /\ write_log' = Append(write_log,
                     [attribute |-> attribute, message |-> message,
                      through |-> io[attribute], reached |-> reached])
              /\ last_line' =
                    IF io[attribute].func = "update_messages_for_dry_run"
                       /\ reached # <<>>
                    THEN message ELSE last_line
    /\ UNCHANGED <<pc, option, is_verbose, file, read_config, poetry_config,
                   groups, updated_dependencies, status, outcome, exception,
                   output, write_calls, installer_calls>>
    /\ UNCHANGED <<constraints, mutated, marked, dropped>>
    /\ UNCHANGED <<package, installer, io, event, command_calls>>

\* installer.run() returns or raises, and the with statement is left
InstallerRun ==
    /\ pc = "run"
    /\ pc' = "done"
    /\ \E result \in InstallerResults :
          /\ io' = Restored(io, result)
          /\ status' = result.returned
          /\ outcome' = IF result.exception # None THEN "raised" ELSE "returned"
          /\ exception' = result.exception
    /\ UNCHANGED <<option, is_verbose, file, read_config, poetry_config, groups,
                   updated_dependencies, output, write_calls, installer_calls>>
    /\ UNCHANGED <<constraints, mutated, marked, dropped>>
    /\ UNCHANGED <<package, installer, last_line, write_log, event,
                   command_calls>>

InstallerNext ==
    \/ ReplaceDependencies
    \/ ConfigureInstaller
    \/ PatchIoWrites
    \/ InstallerWrite
    \/ InstallerRun

InstallerSpec == InstallerInit /\ [][InstallerNext]_vars

(***************************************************************************)
(* __init__.py, RelaxPlugin._auto_relax: the listener of the terminate     *)
(* event of a command.                                                     *)
(***************************************************************************)
\* the exit codes of the terminated command
ExitCodes == InstallerStatuses

\* the options of the add command the listener reads: --group has a name or
\* none
AddOptions ==
    [dev : BOOLEAN, group : {<<>>, <<"main">>, <<"docs">>}, dry_run : BOOLEAN,
     quiet : BOOLEAN, verbose : BOOLEAN, lock : BOOLEAN]

\* the terminated commands: its class, its options and relax_on_add of
\* [tool.poetry-relax] of its project, <<>> when the key is missing
Commands ==
    [class : {"AddCommand", "InstallCommand"}, option : AddOptions,
     relax_on_add : {<<>>, <<FALSE>>, <<TRUE>>}]

\* the ways event.command.call("relax", ...) may end
RelaxResults ==
    {[exception |-> "KeyError", returned |-> <<>>]}
    \cup {[exception |-> None, returned |-> <<n>>] : n \in InstallerStatuses}

\* ShouldRelax without the test of the exit code
ShouldRelaxWhateverExitCode(e) ==
    /\ e.command.class = "AddCommand"
    /\ e.command.relax_on_add = <<TRUE>>

\* the three tests of the listener
ShouldRelax(e) ==
    /\ e.exit_code = 0
    /\ e.command.class = "AddCommand"
    /\ e.command.relax_on_add = <<TRUE>>

\* args: the options of the add command passed on to relax
RelaxArgs(o) ==
    LET group == IF o.dev THEN <<"dev">> ELSE o.group
    IN  (IF group # <<>> THEN <<"--only", group[1]>> ELSE <<>>)
        \o (IF o.dry_run THEN <<"--dry-run">> ELSE <<>>)
        \o (IF o.quiet THEN <<"--quiet">> ELSE <<>>)
        \o (IF o.verbose THEN <<"--verbose">> ELSE <<>>)
        \o (IF o.lock THEN <<"--lock">> ELSE <<>>)

\* the terminate event of a command that ended with the status `status`
PluginInit ==
    /\ pc = "terminate"
    /\ \E code \in ExitCodes, command \in Commands :
          /\ status = <<code>>
          /\ event = [exit_code |-> code, command |-> command]
    /\ command_calls = <<>>
    /\ outcome = "running"
    /\ exception = None
    /\ output = <<>>
    /\ option = [only |-> <<>>, group |-> <<>>, without |-> <<>>,
                 dry_run |-> FALSE, lock |-> FALSE, check |-> FALSE,
                 update |-> FALSE]
    /\ is_verbose = FALSE
    /\ file = <<>>
    /\ read_config = <<>>
    /\ poetry_config = <<>>
    /\ groups = <<>>
    /\ updated_dependencies = <<>>
    /\ write_calls = 0
    /\ installer_calls = <<>>
    /\ constraints = <<>>
    /\ mutated = <<>>
    /\ marked = <<>>
    /\ dropped = <<>>
    /\ package = <<>>
    /\ installer = <<>>
    /\ io = <<>>
    /\ last_line = <<>>
    /\ write_log = <<>>

\* _auto_relax(event, event_name, dispatcher)
AutoRelax ==
    /\ pc = "terminate"
    /\ pc' = "done"
    /\ IF ~ShouldRelax(event)
       THEN /\ outcome' = "returned"
            /\ UNCHANGED <<event, command_calls, output, exception>>
       ELSE \E result \in RelaxResults :
               /\ output' = output \o <<"">>
               /\ command_calls' = Append(command_calls,
                      [name |-> "relax",
                       args |-> RelaxArgs(event.command.option),
                       result |-> result])
               /\ IF result.exception # None
                  THEN /\ outcome' = "raised"
                       /\ exception' = result.exception
                       /\ UNCHANGED event
                  ELSE /\ outcome' = "returned"
                       /\ event' = [event EXCEPT !.exit_code = result.returned[1]]
                       /\ UNCHANGED exception
    /\ UNCHANGED <<option, is_verbose, file, read_config, poetry_config, groups,
                   updated_dependencies, status, write_calls, installer_calls>>
    /\ UNCHANGED <<constraints, mutated, marked, dropped>>
    /\ UNCHANGED <<package, installer, io, last_line, write_log>>

PluginNext == AutoRelax

PluginSpec == PluginInit /\ [][PluginNext]_vars

(***************************************************************************)
(* The vocabulary of the properties.                                       *)
(***************************************************************************)
Done == pc = "done"

\* handle returned a status
Returned == Done /\ outcome = "returned"

\* the invocation ended with an exit status: handle returned one, or the
\* group validation error was turned into one
HasExitStatus == Returned \/ (Done /\ exception = "PoetryConsoleError")

InstallerInvoked == installer_calls # <<>>

LastResult == installer_calls[Len(installer_calls)].result

InstallerRaised == InstallerInvoked /\ LastResult.exception # None

InstallerFailed ==
    InstallerInvoked /\ (LastResult.exception # None \/ LastResult.returned # <<0>>)

\* the number of proposals of the invocation
ProposalCount == UpdatedCount(updated_dependencies)

\* one of update, check and lock is requested
ValidationRequested == option.update \/ option.check \/ option.lock

\* an option names a group the package does not have
UnknownGroupNamed ==
    \E g \in set(option.only) \cup set(option.group) \cup set(option.without) :
        g \notin PackageGroups

\* the target groups the options ask for
TargetSet ==
    (IF set(option.only) \cup set(option.group) # {}
     THEN set(option.only) \cup set(option.group)
     ELSE PackageGroups) \ set(option.without)

\* the in-memory tables are the tables that were read
InMemoryAsRead == poetry_config = read_config

\* the manifest store was not written and holds what was read
ManifestAsRead == write_calls = 0 /\ file = read_config

\* the entry under the declared name of the dependency, in the table of the
\* group of the document, has the constraint of the dependency
Holds(document, group, dependency) ==
    /\ group \in DOMAIN document
    /\ \E i \in DOMAIN document[group] :
          /\ document[group][i].key = dependency.pretty_name
          /\ document[group][i].version = dependency.pretty_constraint

\* every proposal is in the persisted manifest
EveryProposalPersisted ==
    \A g \in DOMAIN updated_dependencies :
        \A i \in DOMAIN updated_dependencies[g] :
            Holds(file, g, updated_dependencies[g][i].dependency)

(***************************************************************************)
(* C1..C10: the orchestration of one invocation.                           *)
(***************************************************************************)
\* C1: in every invocation in which the installer was invoked and raised or
\* returned a non-zero status, the manifest store's write is never called and
\* the persisted manifest is the one that was read.
C1_NoWriteAfterFailedValidation == InstallerFailed => ManifestAsRead

C1_Witness ==
    /\ Returned
    /\ InstallerFailed
    /\ ~option.dry_run
    /\ ProposalCount > 0
    /\ ManifestAsRead

\* C2, as claimed: in every invocation whose final status is non-zero, and in
\* every dry-run invocation, the in-memory tables at the end of handle equal
\* the tables that were read.
C2_InMemoryUntouchedUnlessApplied ==
    (Returned /\ (status # <<0>> \/ option.dry_run)) => InMemoryAsRead

\* an entry of the in-memory tables is the entry that was read, or that entry
\* with only its version replaced by the constraint of a proposal of its group
EntryAsReadOrRelaxed(g, i) ==
    \/ poetry_config[g][i] = read_config[g][i]
    \/ /\ g \in DOMAIN updated_dependencies
       /\ \E k \in DOMAIN updated_dependencies[g] :
             LET d == updated_dependencies[g][k].dependency IN
             /\ d.name = read_config[g][i].key
             /\ poetry_config[g][i] =
                   [read_config[g][i] EXCEPT !.version = d.pretty_constraint]

\* C2, amended: the apply loop runs whatever the status and the dry-run option
\* are. In every invocation whose final status is non-zero, and in every
\* dry-run invocation, the persisted manifest is the one that was read, and the
\* in-memory tables at the end of handle have the groups, keys and entries
\* that were read, except that an entry a proposal names may have its version
\* replaced by the relaxed constraint.
C2_OnlyProposedVersionsRewritten ==
    (Done /\ (status \notin {<<>>, <<0>>} \/ option.dry_run)) =>
        /\ ManifestAsRead
        /\ DOMAIN poetry_config = DOMAIN read_config
        /\ \A g \in DOMAIN poetry_config :
              /\ Len(poetry_config[g]) = Len(read_config[g])
              /\ \A i \in DOMAIN poetry_config[g] : EntryAsReadOrRelaxed(g, i)

C2_Witness ==
    /\ Returned
    /\ status = <<1>>
    /\ ~option.dry_run
    /\ ~InMemoryAsRead
    /\ \E g \in DOMAIN poetry_config : \E i \in DOMAIN poetry_config[g] :
          /\ poetry_config[g][i].kind = "dict"
          /\ poetry_config[g][i] # read_config[g][i]

\* C3: in an invocation with at least one proposal, write is called exactly
\* once if the final status is 0 and dry-run is not set, and zero times
\* otherwise; when it is called, the written document holds the relaxed
\* constraint of every proposal in its group's table.
C3_WriteOnceWithEveryProposal ==
    (Done /\ ProposalCount > 0) =>
        /\ write_calls =
              (IF Returned /\ status = <<0>> /\ ~option.dry_run THEN 1 ELSE 0)
        /\ (write_calls > 0 => EveryProposalPersisted)

\* the status the read-only validation of a dry run ended with
ValidationStatus ==
    IF LastResult.exception # None THEN <<1>> ELSE LastResult.returned

\* C4, as claimed: with dry-run set, write is never called, every installer
\* invocation has its dry-run flag true, and the returned status is 0 when no
\* validation is requested and otherwise the outcome of the validation.
C4_DryRunStatusIsValidationOutcome ==
    option.dry_run =>
        /\ write_calls = 0
        /\ \A i \in DOMAIN installer_calls : installer_calls[i].arguments.dry_run
        /\ Returned =>
              IF ~ValidationRequested THEN status = <<0>>
              ELSE InstallerInvoked => status = ValidationStatus

\* C4, amended: with dry-run set, write is never called and every installer
\* invocation has its dry-run flag true; in an invocation that has at least
\* one proposal, the returned status is 0 when no validation is requested, 1
\* when validation is requested and there is no installer, and otherwise the
\* status the validation returned, or 1 when it raised.
C4_DryRunNeverPersists ==
    option.dry_run =>
        /\ ManifestAsRead \/ pc = "read"
        /\ \A i \in DOMAIN installer_calls : installer_calls[i].arguments.dry_run
        /\ (Returned /\ ProposalCount > 0) =>
              IF ~ValidationRequested THEN status = <<0>>
              ELSE IF ~InstallerInvoked THEN status = <<1>>
              ELSE status = ValidationStatus

C4_Witness ==
    /\ Returned
    /\ option.dry_run
    /\ option.update
    /\ InstallerInvoked
    /\ status = <<2>>
    /\ ManifestAsRead

\* C5: an exception raised by the installer invocation is caught inside handle
\* and converted to final status 1 with its message written; it never
\* propagates out of handle.
C5_InstallerExceptionBecomesStatus1 ==
    (Done /\ InstallerRaised) =>
        /\ Returned
        /\ status = <<1>>
        /\ \E i \in DOMAIN output : output[i] = "str(exc)"

\* C6, as claimed: the exit status of every terminating invocation is 0 or 1,
\* whatever status the installer returns.
C6_ExitStatusZeroOrOne == HasExitStatus => status \in {<<0>>, <<1>>}

\* C6, amended: the exit status of every terminating invocation is 0, 1 or
\* the status the installer returned, which handle returns as it is.
C6_ExitStatusZeroOneOrInstallers ==
    HasExitStatus =>
        \/ status \in {<<0>>, <<1>>}
        \/ InstallerInvoked /\ status = LastResult.returned

C6_Witness ==
    /\ Returned
    /\ InstallerInvoked
    /\ LastResult.returned = <<2>>
    /\ status = <<2>>

C8_EmptyTargetSetFails ==
    (~UnknownGroupNamed /\ TargetSet = {}) =>
        /\ pc \in {"read", "validate_groups", "resolve_groups", "done"}
        /\ Done =>
              /\ Returned
              /\ status = <<1>>
              /\ output[Len(output)] = "No groups to relax."
              /\ InMemoryAsRead
              /\ ManifestAsRead
        /\ updated_dependencies = <<>>
        /\ ~InstallerInvoked
        /\ write_calls = 0

C8_Witness ==
    /\ Returned
    /\ ~UnknownGroupNamed
    /\ TargetSet = {}
    /\ status = <<1>>
    /\ \E g \in DOMAIN file : \E i \in DOMAIN file[g] :
          file[g][i].version = <<"^", "1">>

\* C9: when the number of proposals over all target groups is zero, the
\* invocation returns status 0 and does nothing more, for every combination of
\* the flags: the installer is never invoked and the manifest is neither
\* mutated nor written.
C9_NothingToRelaxIsANoOp ==
    /\ pc \in {"check", "installer", "apply", "finish"} => ProposalCount > 0
    /\ (Done /\ groups # <<>> /\ ProposalCount = 0) =>
          /\ Returned
          /\ status = <<0>>
          /\ output[Len(output)] = "No dependency constraints to relax."
          /\ ~InstallerInvoked
          /\ InMemoryAsRead
          /\ ManifestAsRead

C9_Witness ==
    /\ Returned
    /\ groups # <<>>
    /\ ProposalCount = 0
    /\ DOMAIN updated_dependencies # {}
    /\ option.update
    /\ ~option.dry_run
    /\ \E g \in DOMAIN file : g \in set(groups) /\ file[g] # <<>>

\* C10: when none of update, check and lock is requested and there is at
\* least one proposal, the installer is never invoked and the status is 0; if
\* dry-run is not set either, every proposal is written to the manifest.
C10_NoValidationWritesEveryProposal ==
    (Done /\ ~ValidationRequested /\ ProposalCount > 0) =>
        /\ ~InstallerInvoked
        /\ Returned
        /\ status = <<0>>
        /\ ~option.dry_run => (write_calls = 1 /\ EveryProposalPersisted)

(***************************************************************************)
(* C11..C17: the installer's flags, the groups and the entries.            *)
(***************************************************************************)
\* C11: whenever the installer is invoked, its dry-run flag equals
\* dry-run OR NOT (update OR lock) and its lock-only flag equals the lock
\* option; an invocation with check but neither update nor lock calls the
\* installer with the dry-run flag set.
C11_InstallerFlagsFollowOptions ==
    \A i \in DOMAIN installer_calls :
        /\ installer_calls[i].arguments.dry_run =
              (option.dry_run \/ ~(option.update \/ option.lock))
        /\ installer_calls[i].arguments.lockfile_only = option.lock
        /\ (option.check /\ ~option.update /\ ~option.lock) =>
              installer_calls[i].arguments.dry_run

C11_Witness ==
    /\ InstallerInvoked
    /\ option.check
    /\ ~option.update
    /\ ~option.lock
    /\ ~option.dry_run
    /\ installer_calls[1].arguments.dry_run
    /\ ~installer_calls[1].arguments.lockfile_only

\* the version is the one the entry i of the group g was read with, or the
\* constraint of a proposal of the same group
OwnGroupVersion(version, g, i) ==
    \/ version = read_config[g][i].version
    \/ /\ g \in DOMAIN updated_dependencies
       /\ \E k \in DOMAIN updated_dependencies[g] :
             version = updated_dependencies[g][k].dependency.pretty_constraint

\* the proposal is computed from the entry the group itself declares under the
\* name of the dependency
ProposedFromOwnGroup(g, update) ==
    \E i \in DOMAIN read_config[g] :
        /\ read_config[g][i].key = update.dependency.pretty_name
        /\ read_config[g][i].version = update.old
        /\ update.dependency.pretty_constraint =
              RelaxedConstraint(read_config[g][i].version)

\* C12: per-group isolation. Once the manifest is read, in the in-memory
\* document and in the persisted manifest the table of every group that is not
\* in the target set is the table that was read, whatever is rewritten in the
\* target groups; every proposal of a group, when the proposals have just been
\* collected, is computed from the constraint the group itself declares, and
\* every entry of a group has the version that was read or the constraint of
\* a proposal of its own group.
C12_PerGroupIsolation ==
    pc # "read" =>
        /\ \A document \in {poetry_config, file} :
              /\ DOMAIN document = DOMAIN read_config
              /\ \A g \in DOMAIN document :
                    /\ Len(document[g]) = Len(read_config[g])
                    /\ g \notin TargetSet => document[g] = read_config[g]
                    /\ \A i \in DOMAIN document[g] :
                          OwnGroupVersion(document[g][i].version, g, i)
        /\ pc = "check" =>
              \A g \in DOMAIN updated_dependencies :
                  \A k \in DOMAIN updated_dependencies[g] :
                      ProposedFromOwnGroup(g, updated_dependencies[g][k])

C12_Witness ==
    /\ Returned
    /\ write_calls = 1
    /\ option.without = <<"dev">>
    /\ DOMAIN file = {"dev", MAIN_GROUP}
    /\ Len(file[MAIN_GROUP]) = 1
    /\ Len(file["dev"]) = 1
    /\ read_config[MAIN_GROUP][1] =
          [key |-> <<"t">>, kind |-> "str", version |-> <<"^", "1">>,
           extras |-> None]
    /\ file[MAIN_GROUP][1].version = <<">", "=", "1">>
    /\ file["dev"][1] =
          [key |-> <<"t">>, kind |-> "str", version |-> <<">", "=", "1", ",">>,
           extras |-> None]

\* the list `groups` has been computed and was not empty
GroupsResolved == pc \in {"collect", "check", "installer", "apply", "finish"}

\* C13: the resolved target groups are the groups given by --only and by the
\* deprecated --group, if there is one, otherwise all the groups of the
\* package, less the groups given by --without; no group is listed twice.
C13_TargetGroupSet ==
    (GroupsResolved \/ (Done /\ ~UnknownGroupNamed)) =>
        /\ set(groups) = TargetSet
        /\ Len(groups) = Cardinality(TargetSet)

C13_Witness ==
    /\ pc = "collect"
    /\ option.only = <<"dev">>
    /\ option.group = <<"main">>
    /\ option.without = <<"dev">>
    /\ groups = <<"main">>

\* the groups in the order in which the options give them
GivenOrder == option.only \o option.group

\* C14: the groups are processed in a determined order: the order in which
\* they are given when they are selected explicitly, the ascending order of
\* their names otherwise.
C14_GroupOrderDetermined ==
    GroupsResolved =>
        groups = SelectSeq(IF GivenOrder # <<>> THEN GivenOrder
                           ELSE GroupNamesSorted,
                           LAMBDA g : g \in TargetSet)

\* the entries of the document under the key python are the entries read
PythonEntryAsRead(document) ==
    \A g \in DOMAIN document : \A i \in DOMAIN document[g] :
        read_config[g][i].key = python => document[g][i] = read_config[g][i]

\* C15: the dependency named python never appears in a proposal, is never
\* passed to the installer, and its manifest entry is never modified, whatever
\* its constraint and whatever the flags.
C15_PythonNeverRelaxed ==
    /\ \A g \in DOMAIN updated_dependencies :
          \A k \in DOMAIN updated_dependencies[g] :
              updated_dependencies[g][k].dependency.name # python
    /\ \A c \in DOMAIN installer_calls :
          LET by_group == installer_calls[c].arguments.dependencies_by_group IN
          \A g \in DOMAIN by_group : \A k \in DOMAIN by_group[g] :
              by_group[g][k].name # python
    /\ pc # "read" => PythonEntryAsRead(poetry_config) /\ PythonEntryAsRead(file)

\* the constraint has no caret, hence no clause that a caret leads
NoCaret(version) == \A i \in DOMAIN version : version[i] # "^"

\* the group has a proposal for the dependency declared under the key
Proposed(g, key) ==
    /\ g \in DOMAIN updated_dependencies
    /\ \E k \in DOMAIN updated_dependencies[g] :
          updated_dependencies[g][k].dependency.pretty_name = key

\* C16: a dependency whose declared constraint has no caret-led clause is
\* returned unchanged by the rewrite and never appears in a proposal, and its
\* manifest entry is never modified.
C16_NonCaretUntouched ==
    pc # "read" =>
        \A g \in DOMAIN read_config : \A i \in DOMAIN read_config[g] :
            NoCaret(read_config[g][i].version) =>
                /\ ~Proposed(g, read_config[g][i].key)
                /\ poetry_config[g][i] = read_config[g][i]
                /\ file[g][i] = read_config[g][i]

\* C17: the apply step changes, of the entry a proposal names, only the
\* version: the other keys of a structured table stay, a bare string stays a
\* bare string, and every entry that no proposal names is left as it was read.
C17_OnlyVersionOfProposedEntry ==
    pc # "read" =>
        \A g \in DOMAIN poetry_config : \A i \in DOMAIN poetry_config[g] :
            \/ poetry_config[g][i] = read_config[g][i]
            \/ /\ Proposed(g, read_config[g][i].key)
               /\ poetry_config[g][i].key = read_config[g][i].key
               /\ poetry_config[g][i].kind = read_config[g][i].kind
               /\ poetry_config[g][i].extras = read_config[g][i].extras
               /\ poetry_config[g][i].version =
                     RelaxedConstraint(read_config[g][i].version)

(***************************************************************************)
(* C18..C20: the rewrite of a constraint string on its own.                *)
(***************************************************************************)
RECURSIVE PiecesFrom(_, _)
\* the pieces of the AND-split of every OR-group from the i-th piece of the
\* OR-split on, and the OR separators between the groups, in their order
PiecesFrom(or_constraints, i) ==
    IF i > Len(or_constraints) THEN <<>>
    ELSE (IF i % 2 = 1
          THEN AndSplitFrom(strip(rstrip(or_constraints[i], ",")), 1, 1)
          ELSE <<or_constraints[i]>>)
         \o PiecesFrom(or_constraints, i + 1)

\* the clauses, at the odd places, and the separators, at the even places, of
\* a constraint string
Pieces(s) ==
    IF s = <<"*">> THEN <<s>> ELSE PiecesFrom(OrSplitFrom(strip(s), 1, 1), 1)

CaretLed(clause) == clause # <<>> /\ Head(clause) = "^"

\* the pieces with the leading caret of every caret-led clause replaced by >=
WithCaretsDropped(pieces) ==
    [k \in DOMAIN pieces |->
        IF k % 2 = 1 /\ CaretLed(pieces[k])
        THEN <<">", "=">> \o Tail(pieces[k]) ELSE pieces[k]]

C19_Idempotent == Len(mutated) >= 2 => mutated[2] = mutated[1]

VersionCharacters == {"1", "*"}

ClauseOperators == {<<>>, <<"^">>, <<"=">>, <<"=", "=">>}

\* an optional operator followed by a version
WellFormedClause(clause) ==
    \E op \in ClauseOperators :
        /\ Len(clause) > Len(op)
        /\ SubSeq(clause, 1, Len(op)) = op
        /\ \A i \in (Len(op) + 1)..Len(clause) : clause[i] \in VersionCharacters

\* every clause of the constraint string is well formed
WellFormed(s) ==
    LET pieces == Pieces(s)
    IN  \A k \in DOMAIN pieces : k % 2 = 1 => WellFormedClause(pieces[k])

\* C19, amended: for every constraint string whose clauses are each an
\* optional operator followed by a version, the rewrite applied twice gives
\* the string that the rewrite applied once gives.
C19_IdempotentOnWellFormed ==
    (Len(mutated) >= 2 /\ WellFormed(constraints)) => mutated[2] = mutated[1]

C19_Witness ==
    /\ Len(mutated) = 2
    /\ constraints = <<"^", "1", "|", "1">>
    /\ WellFormed(constraints)
    /\ mutated[1] = <<">", "=", "1", "|", "1">>
    /\ mutated[2] = mutated[1]

\* no clause of the constraint string is led by a caret
NoCaretClause(s) ==
    LET pieces == Pieces(s)
    IN  \A k \in DOMAIN pieces : k % 2 = 1 => ~CaretLed(pieces[k])

\* the constraint string with the trailing commas of every OR-group removed
TrailingCommasRemoved(s) ==
    LET or_constraints == OrSplitFrom(s, 1, 1)
    IN  join([i \in DOMAIN or_constraints |->
                 IF i % 2 = 1 THEN rstrip(or_constraints[i], ",")
                 ELSE or_constraints[i]])

\* C20, as claimed: for every constraint string without a caret clause,
\* mutate_constraint returns the string character for character, but for the
\* trailing commas of every OR-group, which are removed.
C20_RoundTripButTrailingCommas ==
    (Len(mutated) >= 1 /\ NoCaretClause(constraints)) =>
        mutated[1] = TrailingCommasRemoved(constraints)

\* the constraint string without the whitespace around it and, in every
\* OR-group, without the trailing commas and the whitespace around the rest
Normalised(s) ==
    LET or_constraints == OrSplitFrom(strip(s), 1, 1)
    IN  IF s = <<"*">> THEN s
        ELSE join([i \in DOMAIN or_constraints |->
                      IF i % 2 = 1 THEN strip(rstrip(or_constraints[i], ","))
                      ELSE or_constraints[i]])

\* C20, amended: for every constraint string without a caret clause,
\* mutate_constraint returns the string character for character, clauses and
\* AND and OR separators alike, but for the whitespace around the string and,
\* in every OR-group, the trailing commas and the whitespace around what is
\* left, which are removed.
C20_RoundTripUpToNormalisation ==
    (Len(mutated) >= 1 /\ NoCaretClause(constraints)) =>
        mutated[1] = Normalised(constraints)

C20_Witness ==
    /\ Len(mutated) = 1
    /\ constraints = <<"1", ",", " ", "1">>
    /\ NoCaretClause(constraints)
    /\ mutated[1] = constraints

(***************************************************************************)
(* C21..C30: groups without a table, the key lookup, the stages of the     *)
(* rewrite, the installer update and the plugin.                           *)
(***************************************************************************)
\* a target group that declares no dependency table
TableLess(g) == g \in set(groups) /\ g \notin DOMAIN read_config

\* every proposal has the name its entry declares, so that the lookup of the
\* apply loop finds it under either name
NamesAsDeclared ==
    \A g \in DOMAIN updated_dependencies :
        \A i \in DOMAIN updated_dependencies[g] :
            updated_dependencies[g][i].dependency.name =
                updated_dependencies[g][i].dependency.pretty_name

\* C21: a target group that declares no dependency table contributes no
\* proposal and is not an error: whatever the options and the verbosity, the
\* invocation goes on with the other groups and ends by returning a status,
\* without raising. Stated for the invocations whose proposals are named as
\* they are declared, in which the key lookup of the apply loop cannot fail.
C21_GroupWithoutTableIsNoError ==
    (Done /\ NamesAsDeclared /\ \E g \in PackageGroups : TableLess(g)) =>
        /\ outcome = "returned"
        /\ \A g \in PackageGroups :
              TableLess(g) => g \notin DOMAIN updated_dependencies

\* the apply loop raised KeyError: the status was set before it
ApplyRaised == Done /\ exception = "KeyError" /\ status # <<>>

\* C22: for every proposal, the apply loop updates the entry stored under the
\* name the group's table declares, and it never fails on a key lookup, also
\* when the dependency's normalised name differs from the declared key.
C22_ApplyUpdatesDeclaredEntry ==
    /\ ~ApplyRaised
    /\ pc = "finish" =>
          \A g \in DOMAIN updated_dependencies :
              \A i \in DOMAIN updated_dependencies[g] :
                  Holds(poetry_config, g, updated_dependencies[g][i].dependency)

\* "Dependency check successful." was written
CheckSuccessfulWritten ==
    \E i \in DOMAIN output : output[i] = "Dependency check successful."

AbortWritten ==
    \E i \in DOMAIN output :
        output[i] = "Aborted relax due to failure during dependency update."

\* C27: "Dependency check successful." is written only in invocations whose
\* validation by the installer ended with status 0: never together with a
\* non-zero final status or with the message of the abort.
C27_CheckSuccessfulOnlyOnStatusZero ==
    CheckSuccessfulWritten =>
        /\ InstallerInvoked
        /\ LastResult.returned = <<0>>
        /\ status = <<0>>
        /\ ~AbortWritten

\* str.rstrip(c) as the removal of one trailing occurrence of c
rstrip_once(s, c) ==
    IF s # <<>> /\ s[Len(s)] = c THEN SubSeq(s, 1, Len(s) - 1) ELSE s

RECURSIVE PiecesOneCommaFrom(_, _)
\* PiecesFrom with one trailing comma removed from every OR-group
PiecesOneCommaFrom(or_constraints, i) ==
    IF i > Len(or_constraints) THEN <<>>
    ELSE (IF i % 2 = 1
          THEN AndSplitFrom(strip(rstrip_once(or_constraints[i], ",")), 1, 1)
          ELSE <<or_constraints[i]>>)
         \o PiecesOneCommaFrom(or_constraints, i + 1)

PiecesOneComma(s) ==
    IF s = <<"*">> THEN <<s>>
    ELSE PiecesOneCommaFrom(OrSplitFrom(strip(s), 1, 1), 1)

\* the pieces with a mark before every clause and none before a separator
WithClausesMarked(pieces) ==
    [k \in DOMAIN pieces |->
        IF k % 2 = 1 THEN <<Mark>> \o pieces[k] ELSE pieces[k]]

Unmarked(s) == SelectSeq(s, LAMBDA c : c # Mark)

\* C23, as claimed: mutate_constraint strips exactly one trailing comma from
\* every OR-group before it trims the group and splits it into AND-clauses,
\* and then calls the callback on every clause and on no separator.
C23_OneTrailingCommaStripped ==
    marked # <<>> =>
        marked[1] = join(WithClausesMarked(PiecesOneComma(constraints)))

\* C23, amended: mutate_constraint strips every trailing comma from every
\* OR-group before it trims the group and splits it into AND-clauses, and then
\* calls the callback on every clause and on no separator: the result is the
\* clauses with the callback applied and the separators as they are, and
\* without what the callback added it is the normalised constraint.
C23_EveryTrailingCommaStripped ==
    marked # <<>> =>
        /\ marked[1] = join(WithClausesMarked(Pieces(constraints)))
        /\ Unmarked(marked[1]) = Normalised(constraints)

C23_Witness ==
    /\ constraints = <<"1", ",", "1", ",">>
    /\ marked = <<<<Mark, "1", ",", Mark, "1">>>>

\* the first non-whitespace character of the clause is a caret
CaretAfterWhitespace(clause) == CaretLed(lstrip(clause))

RECURSIVE FirstCaretReplaced(_)
\* the string with its first caret replaced by >=
FirstCaretReplaced(s) ==
    IF s = <<>> THEN s
    ELSE IF Head(s) = "^" THEN <<">", "=">> \o Tail(s)
    ELSE <<Head(s)>> \o FirstCaretReplaced(Tail(s))

\* C24, as claimed: the clause rewriter changes a clause if and only if the
\* first non-whitespace character of the clause is a caret; it then replaces
\* exactly the first caret by >= and leaves every other character as it is,
\* and otherwise it returns the clause unchanged.
C24_RewritesIffCaretAfterWhitespace ==
    dropped # <<>> =>
        /\ dropped[1] # constraints <=> CaretAfterWhitespace(constraints)
        /\ dropped[1] = IF CaretAfterWhitespace(constraints)
                        THEN FirstCaretReplaced(constraints) ELSE constraints

\* C24, amended: the clause rewriter changes a clause if and only if the
\* first character of the clause is a caret; it then replaces exactly that
\* caret by >= and leaves every other character as it is, and otherwise it
\* returns the clause unchanged: a clause with whitespace before its caret is
\* returned as it is.
C24_RewritesIffCaretLed ==
    dropped # <<>> =>
        /\ dropped[1] # constraints <=> CaretLed(constraints)
        /\ dropped[1] = IF CaretLed(constraints)
                        THEN FirstCaretReplaced(constraints) ELSE constraints

C24_Witness ==
    /\ constraints = <<"^", "1", "^">>
    /\ dropped = <<<<">", "=", "1", "^">>>>

\* the installer was given its settings
Configured == pc \in {"patch", "run", "done"} /\ installer # <<>>

\* the names of the new dependencies of every group of the call
NewNames ==
    UNION {{Arguments.dependencies_by_group[g][i].name :
                i \in DOMAIN Arguments.dependencies_by_group[g]} :
           g \in DOMAIN Arguments.dependencies_by_group}

\* C25: run_installer_update whitelists, for the update during locking, the
\* name of every new dependency of every group of dependencies_by_group, not
\* only those of one group.
C25_WhitelistOfEveryGroup ==
    Configured => set(installer.whitelist) = NewNames

\* the loop over the groups of dependencies_by_group is just over
Replaced == pc = "configure"

\* the names of the dependencies of the list
NamesOf(dependencies) == {dependencies[i].name : i \in DOMAIN dependencies}

\* the places of the list that hold a dependency of the name
PlacesOf(dependencies, name) ==
    {i \in DOMAIN dependencies : dependencies[i].name = name}

\* the dependencies of the list whose names are not among the names
Others(dependencies, names) ==
    SelectSeq(dependencies, LAMBDA d : d.name \notin names)

\* C26: after the loop that replaces the dependencies, every given group of
\* the package holds, for every proposed name, exactly one dependency of that
\* name, and it is a new record: one of that name that was there is replaced,
\* a missing one is added. The dependencies of the group whose names are not
\* proposed, and the groups that are not given, are as they were.
C26_GroupsHoldTheNewRecords ==
    Replaced =>
        LET given == Arguments.dependencies_by_group
            before == PackageOf(file)
        IN  \A g \in PackageGroups :
                IF g \in DOMAIN given
                THEN /\ \A name \in NamesOf(given[g]) :
                           /\ Cardinality(PlacesOf(package[g], name)) = 1
                           /\ \A i \in PlacesOf(package[g], name) :
                                 package[g][i] \in set(given[g])
                     /\ Others(package[g], NamesOf(given[g]))
                        = Others(before[g], NamesOf(given[g]))
                ELSE package[g] = before[g]

\* a group in which a dependency is replaced and another one, whose name is
\* not proposed, is kept
C26_Witness ==
    /\ Replaced
    /\ groups = <<"dev">>
    /\ Len(PackageOf(file)["dev"]) = 2
    /\ PackageOf(file)["dev"][1].pretty_constraint = <<"^", "1">>
    /\ Len(package["dev"]) = 2
    /\ package["dev"][1] = PackageOf(file)["dev"][2]
    /\ package["dev"][2].name = <<"t">>
    /\ package["dev"][2].pretty_constraint = <<">", "=", "1">>
    /\ package["main"] = PackageOf(file)["main"]

\* a write of the installer reached the output sink
NarrationReached == \E i \in DOMAIN write_log : write_log[i].reached # <<>>

Repeated(i) ==
    /\ i > 1
    /\ write_log[i].message # <<>>
    /\ write_log[i].message = write_log[i - 1].message

PatchOf(function, attribute) ==
    /\ function.func \in {"silence", "update_messages_for_dry_run"}
    /\ function.args = <<OriginalIo[attribute]>>

\* C29: the interception of the output is scoped to one run of the installer.
\* When patch_io_writes is left, whether the run returned or raised, write and
\* write_line of the io object are the functions they were before it was
\* entered; inside, every call of write and of write_line goes through the
\* patch function.
C29_PatchScopedToTheRun ==
    /\ pc \in {"replace", "configure", "patch", "done"} => io = OriginalIo
    /\ pc = "run" =>
          /\ PatchOf(io.write, "write")
          /\ PatchOf(io.write_line, "write_line")
    /\ \A i \in DOMAIN write_log :
          PatchOf(write_log[i].through, write_log[i].attribute)

C29_Witness ==
    /\ pc = "done"
    /\ outcome = "raised"
    /\ io = OriginalIo
    /\ Len(write_log) = 2
    /\ write_log[1].attribute = "write"
    /\ write_log[2].attribute = "write_line"
    /\ write_log[1].through.func = "silence"

\* the three conditions of an automatic relax held when the command ended
OptedInAddSucceeded ==
    /\ status = <<0>>
    /\ event.command.class = "AddCommand"
    /\ event.command.relax_on_add = <<TRUE>>

\* C30: the listener of the terminate event starts an automatic relax only
\* when the exit code of the terminated command is 0, the command is the add
\* command and the project opted in with relax_on_add. In every other case it
\* calls nothing and leaves the exit code of the event as it is; when it runs
\* relax, the exit code of the event becomes the status relax returned.
C30_AutoRelaxOnlyAfterOptedInAdd ==
    /\ command_calls # <<>> => OptedInAddSucceeded
    /\ pc = "done" =>
          IF OptedInAddSucceeded
          THEN /\ Len(command_calls) = 1
               /\ command_calls[1].name = "relax"
               /\ command_calls[1].result.exception = None =>
                     <<event.exit_code>> = command_calls[1].result.returned
          ELSE /\ command_calls = <<>>
               /\ <<event.exit_code>> = status
               /\ output = <<>>

C30_Witness ==
    /\ pc = "done"
    /\ status = <<0>>
    /\ Len(command_calls) = 1
    /\ command_calls[1].args = <<"--only", "docs", "--dry-run">>
    /\ command_calls[1].result.returned = <<1>>
    /\ event.exit_code = 1
====
